---- MODULE Spec2Model ----
(***************************************************************************)
(* RetryMiddleware (scrapy/contrib/downloadermiddleware/retry.py).         *)
(*                                                                         *)
(* Requests are heap objects (an index of `requests`), each owning a       *)
(* reference to a meta dict (an index of `metas`), so that aliasing of     *)
(* the metadata between a request and its copy is expressible.             *)
(* The handlers are translated line by line into Step; the reactor runs a  *)
(* handler to completion (Run), which is what the actions of Spec do.      *)
(***************************************************************************)
EXTENDS Integers, Sequences, FiniteSets, TLC

VARIABLES settings, mw, requests, metas, sched, seen, hist, calls, last,
          signals

vars == <<settings, mw, requests, metas, sched, seen, hist, calls, last,
          signals>>

-----------------------------------------------------------------------------
(* Bounds of the model *)

\* largest RETRY_TIMES setting explored
MaxRetryTimes == 2

-----------------------------------------------------------------------------
(* Input domains *)

\* The pages of the crawl: the scheduling layer submits one request for each
Urls == {"a", "b"}

\* HTTP status codes the transport may answer with
Statuses == {200, 400, 500}

\* Values of the RETRY_HTTP_CODES setting: lists of strings, a string being
\* the sequence of its decimal digits.
CodeSettings ==
    { << <<5,0,0>>, <<5,0,3>>, <<5,0,4>>, <<4,0,0>>, <<4,0,8>> >>,
      << <<5,0,0>> >> }

\* Exception classes the transport may raise
Exceptions == {"ConnectionLost", "TCPTimedOutError", "ValueError"}

\* Stored counts a submitted request may already carry in its meta
StoredCounts == {1}

-----------------------------------------------------------------------------
(* Python values *)

\* the empty dict
EmptyDict == [k \in {} |-> 0]

\* dict.get(key, default)
DictGet(d, key, default) == IF key \in DOMAIN d THEN d[key] ELSE default

\* d[key] = value
DictSet(d, key, value) ==
    [k \in DOMAIN d \cup {key} |-> IF k = key THEN value ELSE d[k]]

RECURSIVE ParseInt(_)
\* int(s) of a string of decimal digits
ParseInt(s) ==
    IF Len(s) = 0 THEN 0
    ELSE 10 * ParseInt(SubSeq(s, 1, Len(s) - 1)) + s[Len(s)]

\* map(int, list)
MapInt(l) == [i \in 1 .. Len(l) |-> ParseInt(l[i])]

\* x in list
InList(x, l) == \E i \in 1 .. Len(l) : l[i] = x

\* Return values: a response, a request (by identity) or None
NoneValue == [type |-> "None", id |-> 0, status |-> 0]
ResponseValue(r, s) == [type |-> "Response", id |-> r, status |-> s]
RequestValue(r) == [type |-> "Request", id |-> r, status |-> 0]

\* truth value of `x` in `x or y`: None is false, an object is true
Truthy(v) == v.type # "None"

-----------------------------------------------------------------------------
(* The middleware *)

\* RetryMiddleware.EXCEPTIONS_TO_RETRY
EXCEPTIONS_TO_RETRY ==
    {"ServerTimeoutError", "UserTimeoutError", "DNSLookupError",
     "ConnectionRefusedError", "ConnectionDone", "ConnectError",
     "ConnectionLost", "PartialDownloadError"}

\* direct base classes of the exception classes (twisted's hierarchy)
Bases(c) ==
    CASE c = "ConnectionRefusedError" -> {"ConnectError"}
      [] c = "TCPTimedOutError" -> {"ConnectError"}
      [] c = "ConnectionDone" -> {"ConnectionClosed"}
      [] c = "ConnectionLost" -> {"ConnectionClosed"}
      [] OTHER -> {}

\* isinstance(exception, classes)
IsInstance(c, classes) ==
    \/ c \in classes
    \/ \E b \in Bases(c) : b \in classes

NotConstructed == [constructed |-> FALSE, max_retry_times |-> 0,
                   retry_http_codes |-> <<>>]

\* RetryMiddleware.__init__
MiddlewareInit(s) ==
    [constructed |-> TRUE,
     max_retry_times |-> s.RETRY_TIMES,
     retry_http_codes |-> MapInt(s.RETRY_HTTP_CODES)]

\* response_status_message(status)
response_status_message(status) ==
    <<status,
      CASE status = 200 -> "OK"
        [] status = 400 -> "Bad Request"
        [] status = 404 -> "Not Found"
        [] status = 500 -> "Internal Server Error"
        [] OTHER -> "Unknown Status">>

\* request.meta.get('retry_times', 0) of the request object r in heap w
StoredCount(w, r) == DictGet(w.metas[w.requests[r].meta], "retry_times", 0)

\* Request.copy(): a new request object with the same attributes and a dict
\* of its own holding the same items
Copy(w, r) ==
    [w EXCEPT !.metas = Append(@, w.metas[w.requests[r].meta]),
              !.requests = Append(@, [w.requests[r] EXCEPT
                                        !.meta = Len(w.metas) + 1])]

\* what is recorded about a request object: the request it was copied from
\* (0: submitted by the scheduling layer), whether its logical request was
\* first submitted with no stored count and, once the middleware has been
\* called with it, the stored count it had on entry and the value returned
NewHist(parent, fresh) ==
    [parent |-> parent, fresh |-> fresh, evaluated |-> FALSE, pre |-> 0,
     rtype |-> "None", clone |-> 0]

\* the bookkeeping of a request object created by a call
Track(w, parent) ==
    [w EXCEPT !.hist = Append(@, NewHist(parent, w.hist[parent].fresh)),
              !.sched = Append(@, "new")]

\* log.msg(...) of _retry: the notification, attributed to the call
LogMsg(f, event) ==
    [f EXCEPT !.logged = Append(@, [event |-> event, request |-> f.request,
                                    retries |-> f.retries,
                                    reason |-> f.reason])]

\* what a call is given: the request's stored count, flag and dict on entry
Snapshot(r) ==
    [count |-> DictGet(metas[requests[r].meta], "retry_times", 0),
     dont_filter |-> requests[r].dont_filter,
     meta |-> requests[r].meta,
     dict |-> metas[requests[r].meta]]

NoSnapshot == [count |-> 0, dont_filter |-> FALSE, meta |-> 0,
               dict |-> EmptyDict]

\* the frame of a call entering process_response / process_exception
Enter(op, r, response, exception) ==
    [op |-> op, pc |-> IF op = "process_response" THEN "L46" ELSE "L52",
     request |-> r, response |-> response, exception |-> exception,
     reason |-> <<>>, retries |-> 0, retryreq |-> 0,
     rv |-> NoneValue, ret |-> NoneValue, logged |-> <<>>,
     pre |-> Snapshot(r)]

\* no call
Idle == [op |-> "idle", pc |-> "idle", request |-> 0, response |-> NoneValue,
         exception |-> "", reason |-> <<>>, retries |-> 0, retryreq |-> 0,
         rv |-> NoneValue, ret |-> NoneValue, logged |-> <<>>,
         pre |-> NoSnapshot]

\* mutant of line 46: every error status is retried
ClassifyResponseAnyError(w) ==
    IF w.f.response.status >= 400
    THEN [w EXCEPT !.f.pc = "L47"]
    ELSE [w EXCEPT !.f.ret = w.f.response, !.f.pc = "return"]

\* line 46: if response.status in self.retry_http_codes (else line 49)
ClassifyResponse(w) ==
    IF InList(w.f.response.status, mw.retry_http_codes)
    THEN [w EXCEPT !.f.pc = "L47"]
    ELSE [w EXCEPT !.f.ret = w.f.response, !.f.pc = "return"]

\* line 47: reason = response_status_message(response.status)
ResponseReason(w) ==
    [w EXCEPT !.f.reason = response_status_message(w.f.response.status),
              !.f.pc = "L56"]

\* line 52: if isinstance(exception, self.EXCEPTIONS_TO_RETRY); the call of
\* line 53 passes the exception as the reason; otherwise None is returned
ClassifyException(w) ==
    IF IsInstance(w.f.exception, EXCEPTIONS_TO_RETRY)
    THEN [w EXCEPT !.f.reason = <<w.f.exception>>, !.f.pc = "L56"]
    ELSE [w EXCEPT !.f.ret = NoneValue, !.f.pc = "return"]

\* mutant of line 56: retries = request.meta.get('retry_times', 1) + 1
CountRetriesDefaultOne(w) ==
    [w EXCEPT !.f.retries =
                  DictGet(w.metas[w.requests[w.f.request].meta],
                          "retry_times", 1) + 1,
              !.f.pc = "L58"]

\* line 56: retries = request.meta.get('retry_times', 0) + 1
CountRetries(w) ==
    [w EXCEPT !.f.retries = StoredCount(w, w.f.request) + 1, !.f.pc = "L58"]

\* mutant of line 58: retries < self.max_retry_times
CheckRetriesStrict(w) ==
    IF w.f.retries < mw.max_retry_times
    THEN [w EXCEPT !.f.pc = "L59"]
    ELSE [w EXCEPT !.f.pc = "L66"]

\* mutant of line 58: the stored count, not retries, is compared
CheckRetriesStored(w) ==
    IF w.f.retries - 1 <= mw.max_retry_times
    THEN [w EXCEPT !.f.pc = "L59"]
    ELSE [w EXCEPT !.f.pc = "L66"]

\* line 58: if retries <= self.max_retry_times
CheckRetries(w) ==
    IF w.f.retries <= mw.max_retry_times
    THEN [w EXCEPT !.f.pc = "L59"]
    ELSE [w EXCEPT !.f.pc = "L66"]

\* lines 59-60: log.msg("Retrying ...")
LogRetrying(w) == [w EXCEPT !.f = [LogMsg(w.f, "Retrying") EXCEPT !.pc = "L61"]]

\* line 61: retryreq = request.copy()
CopyRequest(w) ==
    [Track(Copy(w, w.f.request), w.f.request) EXCEPT
        !.f.retryreq = Len(w.requests) + 1,
        !.f.pc = "L62"]

\* mutant of line 62: the count is stored in the request created last,
\* whichever call created it
StoreRetriesLatest(w) ==
    [w EXCEPT !.metas[w.requests[Len(w.requests)].meta] =
                  DictSet(@, "retry_times", w.f.retries),
              !.f.pc = "L63"]

\* mutant of line 62: request.meta['retry_times'] = retries
StoreRetriesInPlace(w) ==
    [w EXCEPT !.metas[w.requests[w.f.request].meta] =
                  DictSet(@, "retry_times", w.f.retries),
              !.f.pc = "L63"]

\* line 62: retryreq.meta['retry_times'] = retries
StoreRetries(w) ==
    [w EXCEPT !.metas[w.requests[w.f.retryreq].meta] =
                  DictSet(@, "retry_times", w.f.retries),
              !.f.pc = "L63"]

\* mutant of line 63: the flag is left as copied
SetDontFilterSkipped(w) == [w EXCEPT !.f.pc = "L64"]

\* line 63: retryreq.dont_filter = True
SetDontFilter(w) ==
    [w EXCEPT !.requests[w.f.retryreq].dont_filter = TRUE, !.f.pc = "L64"]

\* line 64: return retryreq
ReturnRetryreq(w) ==
    [w EXCEPT !.f.rv = RequestValue(w.f.retryreq), !.f.pc = "ret_retry"]

\* mutant of lines 66-67: the stored count is reported
LogDiscardingStored(w) ==
    [w EXCEPT !.f = [LogMsg([w.f EXCEPT !.retries = @ - 1], "Discarding")
                        EXCEPT !.retries = w.f.retries, !.rv = NoneValue,
                               !.pc = "ret_retry"]]

\* lines 66-67: log.msg("Discarding ..."); _retry ends, returning None
LogDiscarding(w) ==
    [w EXCEPT !.f = [LogMsg(w.f, "Discarding") EXCEPT !.rv = NoneValue,
                                                      !.pc = "ret_retry"]]

\* mutant of line 48: return self._retry(...)
ReturnFromResponseBare(w) == [w EXCEPT !.f.ret = w.f.rv, !.f.pc = "return"]

\* line 48: return self._retry(...) or response
ReturnFromResponse(w) ==
    [w EXCEPT !.f.ret = IF Truthy(w.f.rv) THEN w.f.rv ELSE w.f.response,
              !.f.pc = "return"]

\* line 53: return self._retry(...)
ReturnFromException(w) == [w EXCEPT !.f.ret = w.f.rv, !.f.pc = "return"]

\* One line of process_response, process_exception or _retry, executed by the
\* call whose frame is w.f, on the heap w.requests, w.metas.
Step(w) ==
    CASE w.f.pc = "L46" -> ClassifyResponse(w)
      [] w.f.pc = "L47" -> ResponseReason(w)
      [] w.f.pc = "L52" -> ClassifyException(w)
      [] w.f.pc = "L56" -> CountRetries(w)
      [] w.f.pc = "L58" -> CheckRetries(w)
      [] w.f.pc = "L59" -> LogRetrying(w)
      [] w.f.pc = "L61" -> CopyRequest(w)
      [] w.f.pc = "L62" -> StoreRetries(w)
      [] w.f.pc = "L63" -> SetDontFilter(w)
      [] w.f.pc = "L64" -> ReturnRetryreq(w)
      [] w.f.pc = "L66" -> LogDiscarding(w)
      [] w.f.pc = "ret_retry" /\ w.f.op = "process_response" ->
           ReturnFromResponse(w)
      [] w.f.pc = "ret_retry" /\ w.f.op = "process_exception" ->
           ReturnFromException(w)

RECURSIVE Run(_)
\* the handler run to its return, as the reactor runs a callback
Run(w) == IF w.f.pc = "return" THEN w ELSE Run(Step(w))

\* the heap and bookkeeping a call works on, with its frame
World(f) == [requests |-> requests, metas |-> metas, hist |-> hist,
             sched |-> sched, seen |-> seen, f |-> f]

\* the scheduler's duplicate filter: a request is admitted if it carries the
\* bypass flag or its target was not seen before
Admits(w, r) == w.requests[r].dont_filter \/ w.requests[r].url \notin w.seen

\* the scheduler takes request r: admitted to the transport, or dropped as a
\* duplicate
Enqueue(w, r) ==
    [w EXCEPT !.sched[r] = IF Admits(w, r) THEN "inflight" ELSE "filtered",
              !.seen = IF w.requests[r].dont_filter THEN @
                       ELSE @ \cup {w.requests[r].url}]

\* the call of w.f has returned: the engine takes the returned value and
\* hands a returned request to the scheduler
Finish(w) ==
    LET f == w.f
        v == [w EXCEPT !.hist[f.request] =
                           [@ EXCEPT !.evaluated = TRUE, !.pre = f.pre.count,
                                     !.rtype = f.ret.type,
                                     !.clone = IF f.ret.type = "Request"
                                               THEN f.ret.id ELSE 0],
                       !.sched[f.request] = "done"]
    IN IF f.ret.type = "Request" THEN Enqueue(v, f.ret.id) ELSE v

-----------------------------------------------------------------------------
(* The state machine *)

NoCalls == [r \in {} |-> Idle]

\* the signals the middleware has sent: no line of the module sends one, so
\* every step of a handler leaves them as they are
NoSignals == {}

TypeSettings(retryTimes) ==
    [RETRY_TIMES : retryTimes, RETRY_HTTP_CODES : CodeSettings]

InitWith(retryTimes) ==
    /\ settings \in TypeSettings(retryTimes)
    /\ mw = NotConstructed
    /\ requests = <<>>
    /\ metas = <<>>
    /\ sched = <<>>
    /\ seen = {}
    /\ hist = <<>>
    /\ calls = NoCalls
    /\ last = Idle
    /\ signals = NoSignals

\* a policy as the configuration surface describes it: RETRY_TIMES >= 0
Init == InitWith(0 .. MaxRetryTimes)

\* settings.getint('RETRY_TIMES') yields whatever integer is configured
InitAnySettings == InitWith(-1 .. MaxRetryTimes)

\* RetryMiddleware() is constructed from the settings
Construct ==
    /\ ~mw.constructed
    /\ mw' = MiddlewareInit(settings)
    /\ UNCHANGED <<settings, requests, metas, sched, seen, hist, calls, last,
                   signals>>

\* the requests submitted by the scheduling layer
Roots == {r \in DOMAIN hist : hist[r].parent = 0}

\* the heap and bookkeeping after a step of the engine or of a call
Becomes(w) ==
    /\ requests' = w.requests
    /\ metas' = w.metas
    /\ hist' = w.hist
    /\ sched' = w.sched
    /\ seen' = w.seen

\* the meta and flag a submitted request may carry
RootRequests ==
    [dont_filter : BOOLEAN,
     meta : {EmptyDict} \cup {DictSet(EmptyDict, "retry_times", c) :
                                 c \in StoredCounts}]

\* a request as first created: no stored count, filtered as usual
FreshRequests == {[dont_filter |-> FALSE, meta |-> EmptyDict]}

\* the scheduling layer creates the request of a page and hands it to the
\* scheduler
SubmitFrom(templates) ==
    /\ \E url \in Urls, t \in templates :
          LET df == t.dont_filter
              d == t.meta
          IN
          /\ \A r \in Roots : requests[r].url # url
          /\ Becomes(Enqueue(
                [World(Idle) EXCEPT
                    !.metas = Append(@, d),
                    !.requests = Append(@, [url |-> url,
                                            meta |-> Len(metas) + 1,
                                            dont_filter |-> df]),
                    !.hist = Append(@, NewHist(0, d = EmptyDict)),
                    !.sched = Append(@, "new")],
                Len(requests) + 1))
    /\ UNCHANGED <<settings, mw, calls, last, signals>>

Submit == SubmitFrom(RootRequests)

\* the transport answers request r with a response: process_response runs
ProcessResponse ==
    /\ mw.constructed
    /\ \E r \in DOMAIN sched, status \in Statuses :
          /\ sched[r] = "inflight"
          /\ \E w \in {Finish(Run(World(Enter("process_response", r,
                                             ResponseValue(r, status), ""))))} :
                Becomes(w) /\ last' = w.f
    /\ UNCHANGED <<settings, mw, calls, signals>>

\* the transport fails on request r with an exception: process_exception runs
ProcessException ==
    /\ mw.constructed
    /\ \E r \in DOMAIN sched, exc \in Exceptions :
          /\ sched[r] = "inflight"
          /\ \E w \in {Finish(Run(World(Enter("process_exception", r,
                                             NoneValue, exc))))} :
                Becomes(w) /\ last' = w.f
    /\ UNCHANGED <<settings, mw, calls, signals>>

Next ==
    \/ Construct
    \/ Submit
    \/ ProcessResponse
    \/ ProcessException

Spec == Init /\ [][Next]_vars

SpecAnySettings == InitAnySettings /\ [][Next]_vars

-----------------------------------------------------------------------------
(* The handlers as concurrent callbacks: a call is entered, runs line by   *)
(* line interleaved with the other calls, and returns.                     *)

\* the lines that read or write the heap of requests and metas; every other
\* line works on the call's own frame and the immutable policy, so it
\* commutes with the lines of other calls
HeapLines == {"L56", "L61", "L62", "L63"}

RECURSIVE Advance(_)
\* the call runs up to its next line on the heap, or to its return
Advance(w) ==
    IF w.f.pc \in HeapLines \cup {"return"} THEN w ELSE Advance(Step(w))

\* call r is entered with frame f
Begin(r, f) ==
    /\ sched[r] = "inflight"
    /\ r \notin DOMAIN calls
    /\ calls' = [k \in DOMAIN calls \cup {r} |->
                   IF k = r THEN Advance(World(f)).f ELSE calls[k]]

\* a call of process_response is entered with request r
BeginResponse ==
    /\ mw.constructed
    /\ \E r \in DOMAIN sched, status \in Statuses :
          Begin(r, Enter("process_response", r, ResponseValue(r, status), ""))
    /\ UNCHANGED <<settings, mw, requests, metas, sched, seen, hist, last,
                   signals>>

\* a call of process_exception is entered with request r
BeginException ==
    /\ mw.constructed
    /\ \E r \in DOMAIN sched, exc \in Exceptions :
          Begin(r, Enter("process_exception", r, NoneValue, exc))
    /\ UNCHANGED <<settings, mw, requests, metas, sched, seen, hist, last,
                   signals>>

\* a call in progress executes its next line on the heap
StepCall ==
    /\ \E r \in DOMAIN calls :
          /\ calls[r].pc # "return"
          /\ LET w == Advance(Step(World(calls[r])))
             IN Becomes(w) /\ calls' = [calls EXCEPT ![r] = w.f]
    /\ UNCHANGED <<settings, mw, last, signals>>

\* a call returns to the engine
ReturnCall ==
    /\ \E r \in DOMAIN calls :
          /\ calls[r].pc = "return"
          /\ Becomes(Finish(World(calls[r])))
          /\ calls' = [k \in DOMAIN calls \ {r} |-> calls[k]]
    /\ UNCHANGED <<settings, mw, last, signals>>

SubmitFresh == SubmitFrom(FreshRequests)

NextConc ==
    \/ Construct
    \/ SubmitFresh
    \/ BeginResponse
    \/ BeginException
    \/ StepCall
    \/ ReturnCall

SpecConc == Init /\ [][NextConc]_vars

-----------------------------------------------------------------------------
(* The crawl as it is scheduled *)

\* the crawl of requests submitted afresh, the handlers run by the reactor
NextFresh ==
    \/ Construct
    \/ SubmitFresh
    \/ ProcessResponse
    \/ ProcessException

\* The middleware is constructed when the crawl starts, and the transport
\* yields an outcome, a response or an exception, for every request in
\* flight.
SpecFair ==
    /\ Init
    /\ [][NextFresh]_vars
    /\ WF_vars(Construct)
    /\ WF_vars(ProcessResponse \/ ProcessException)

-----------------------------------------------------------------------------
(* Properties *)

\* the stored attempt count of request r: meta 'retry_times', absent = 0
CountOf(r) == DictGet(metas[requests[r].meta], "retry_times", 0)

\* request r has been given to the middleware, which returned a retry request
Rescheduled(r) == hist[r].evaluated /\ hist[r].rtype = "Request"

\* the requests copied from request r
ClonesOf(r) == {q \in DOMAIN hist : hist[q].parent = r}

\* the outcome of call f is retryable under the policy: a status of the
\* configured set, or an exception of one of the enumerated kinds
RetryableOutcome(f) ==
    \/ /\ f.op = "process_response"
       /\ f.response.status \in
              {ParseInt(settings.RETRY_HTTP_CODES[i]) :
                  i \in DOMAIN settings.RETRY_HTTP_CODES}
    \/ /\ f.op = "process_exception"
       /\ \/ f.exception \in EXCEPTIONS_TO_RETRY
          \/ Bases(f.exception) \cap EXCEPTIONS_TO_RETRY # {}

\* a call has been made
Called(f) == f.op # "idle"

\* C1: whenever a request with stored count c is rescheduled, the returned
\* clone stores exactly c+1 and the original still stores c afterwards; the
\* clone is another object with a meta dict of its own.
C1_CloneCountsOneMore ==
    \A r \in DOMAIN hist :
        Rescheduled(r) =>
            LET q == hist[r].clone IN
            /\ q \in DOMAIN requests /\ q # r
            /\ "retry_times" \in DOMAIN metas[requests[q].meta]
            /\ metas[requests[q].meta]["retry_times"] = hist[r].pre + 1
            /\ CountOf(r) = hist[r].pre
            /\ requests[q].meta # requests[r].meta

\* C1 witness: a request storing the count 1 was rescheduled, and its clone
\* has been given to the middleware in turn
C1_Witness ==
    \E r \in DOMAIN hist :
        /\ Rescheduled(r) /\ hist[r].pre = 1
        /\ "retry_times" \in DOMAIN metas[requests[r].meta]
        /\ hist[hist[r].clone].evaluated

\* C2 as stated: a retryable outcome for a request whose stored count c is
\* at most max_retry_times yields a retry request with dont_filter set.
C2_RescheduleUpToCeiling ==
    (Called(last) /\ RetryableOutcome(last)
        /\ last.pre.count <= mw.max_retry_times)
    => (last.ret.type = "Request" /\ requests[last.ret.id].dont_filter)

\* C2 amended: a retryable outcome for a request whose stored count c is
\* below max_retry_times (c + 1 <= max_retry_times) yields a retry request
\* with dont_filter set.
C2_RescheduleBelowCeiling ==
    (Called(last) /\ RetryableOutcome(last)
        /\ last.pre.count + 1 <= mw.max_retry_times)
    => (last.ret.type = "Request" /\ requests[last.ret.id].dont_filter)

\* C2 witness: the last retry the ceiling allows, of a request whose own flag
\* was not set
C2_Witness ==
    /\ Called(last) /\ RetryableOutcome(last)
    /\ last.pre.count + 1 = mw.max_retry_times
    /\ ~last.pre.dont_filter
    /\ last.ret.type = "Request"

\* C3: a request whose stored count equals max_retry_times and that gets a
\* retryable outcome is discarded: no request is returned, none is created.
C3_DiscardAtCeiling ==
    (Called(last) /\ RetryableOutcome(last)
        /\ last.pre.count = mw.max_retry_times)
    => (last.ret.type # "Request" /\ ClonesOf(last.request) = {})

\* C3 witness: a clone that reached the ceiling fails once more
C3_Witness ==
    /\ Called(last) /\ RetryableOutcome(last)
    /\ last.pre.count = mw.max_retry_times
    /\ hist[last.request].parent # 0
    /\ last.ret.type # "Request"

RECURSIVE RootOf(_)
\* the request submitted by the scheduling layer that r is a retry of
RootOf(r) == IF hist[r].parent = 0 THEN r ELSE RootOf(hist[r].parent)

\* the attempts of the logical request of root: the root and its retries
AttemptsOf(root) == {r \in DOMAIN hist : RootOf(r) = root}

\* C4: a logical request first submitted with no stored count is resubmitted
\* at most max_retry_times times, whatever the outcomes fed back: at most
\* 1 + max_retry_times attempts in all.
C4_AttemptsBounded ==
    \A root \in Roots :
        hist[root].fresh =>
            /\ Cardinality(AttemptsOf(root) \ {root}) <= settings.RETRY_TIMES
            /\ Cardinality(AttemptsOf(root)) <= 1 + settings.RETRY_TIMES

\* C4 witness: a fresh request has used all its attempts under the largest
\* ceiling, and the last one has been discarded
C4_Witness ==
    \E root \in Roots :
        /\ hist[root].fresh
        /\ settings.RETRY_TIMES = MaxRetryTimes
        /\ Cardinality(AttemptsOf(root)) = 1 + MaxRetryTimes
        /\ \A r \in AttemptsOf(root) : hist[r].evaluated

\* C5: every request the middleware returns as a retry has dont_filter set,
\* and the duplicate filter admits it although its target was seen already.
C5_RetryBypassesFilter ==
    \A r \in DOMAIN hist :
        (hist[r].parent # 0 /\ sched[r] # "new") =>
            /\ requests[r].dont_filter
            /\ sched[r] # "filtered"

\* C5 witness: the retry of a request that did not carry the flag is in
\* flight although its target has been seen
C5_Witness ==
    \E r \in DOMAIN hist :
        /\ hist[r].parent # 0
        /\ ~requests[hist[r].parent].dont_filter
        /\ requests[r].url \in seen
        /\ requests[r].url = requests[hist[r].parent].url
        /\ sched[r] = "inflight"

\* C6: a non-retryable outcome passes through whatever the stored count:
\* process_response returns the response it was given, process_exception
\* returns None, and no request is produced.
C6_NonRetryablePassesThrough ==
    (Called(last) /\ ~RetryableOutcome(last)) =>
        /\ last.op = "process_response" => last.ret = last.response
        /\ last.op = "process_exception" => last.ret = NoneValue
        /\ ClonesOf(last.request) = {}
        /\ metas[requests[last.request].meta] = last.pre.dict

\* C6 witness: a 400 answer, not configured as retryable, for a request that
\* stores a count
C6_Witness ==
    /\ Called(last) /\ ~RetryableOutcome(last)
    /\ last.op = "process_response" /\ last.response.status = 400
    /\ last.pre.count >= 1

\* C7 as stated: retryable responses and retryable exceptions get the same
\* result variant: a retry request when count + 1 <= max_retry_times, and
\* otherwise a drop, neither a request nor the outcome passed through.
C7_ExhaustedIsDropped ==
    (Called(last) /\ RetryableOutcome(last)) =>
        IF last.pre.count + 1 <= mw.max_retry_times
        THEN last.ret.type = "Request"
        ELSE last.ret = NoneValue

\* C7 amended: retryable responses and retryable exceptions are rescheduled
\* under the same condition, count + 1 <= max_retry_times; otherwise no
\* request is returned: process_exception returns None and process_response
\* returns the response it was given. A non-retryable outcome is never
\* rescheduled.
C7_UniformRetryDecision ==
    /\ (Called(last) /\ RetryableOutcome(last)) =>
          IF last.pre.count + 1 <= mw.max_retry_times
          THEN last.ret.type = "Request"
          ELSE /\ last.op = "process_exception" => last.ret = NoneValue
               /\ last.op = "process_response" => last.ret = last.response
    /\ (Called(last) /\ ~RetryableOutcome(last)) => last.ret.type # "Request"

\* C7 witness: a retryable response for a request that has no retry left
C7_Witness ==
    /\ Called(last) /\ RetryableOutcome(last)
    /\ last.op = "process_response"
    /\ last.pre.count + 1 > mw.max_retry_times
    /\ last.ret = last.response

\* C8: an evaluation of a retryable outcome emits exactly one notification,
\* 'Retrying' iff a retry request is returned and 'Discarding' iff not; it
\* reports the request and the count stored count + 1; a non-retryable
\* outcome emits none.
C8_OneNotification ==
    Called(last) =>
        IF RetryableOutcome(last)
        THEN /\ Len(last.logged) = 1
             /\ last.logged[1].request = last.request
             /\ last.logged[1].retries = last.pre.count + 1
             /\ last.logged[1].event \in {"Retrying", "Discarding"}
             /\ last.logged[1].event = "Retrying" <=> last.ret.type = "Request"
        ELSE last.logged = <<>>

\* C8 witness: a retry-exhausted notification reporting a count above 1
C8_Witness ==
    /\ Called(last) /\ RetryableOutcome(last)
    /\ Len(last.logged) = 1
    /\ last.logged[1].event = "Discarding"
    /\ mw.max_retry_times = MaxRetryTimes
    /\ last.logged[1].retries = MaxRetryTimes + 1

\* C9: a negative RETRY_TIMES fails fast at construction: no middleware with
\* max_retry_times < 0 reaches a call of process_response or
\* process_exception.
C9_NegativeCeilingFailsFast == Called(last) => mw.max_retry_times >= 0

\* the call of frame f run alone: the same request, as it was on entry, and
\* the same outcome, on a heap holding nothing else, run to its return
AloneWorld(f) ==
    [requests |-> <<[url |-> requests[f.request].url, meta |-> 1,
                     dont_filter |-> f.pre.dont_filter]>>,
     metas |-> <<f.pre.dict>>,
     hist |-> <<NewHist(0, TRUE)>>,
     sched |-> <<"inflight">>,
     seen |-> {},
     f |-> [f EXCEPT !.pc = IF f.op = "process_response" THEN "L46" ELSE "L52",
                     !.request = 1,
                     !.response = [f.response EXCEPT
                                      !.id = IF f.response.type = "Response"
                                             THEN 1 ELSE 0],
                     !.reason = <<>>, !.retries = 0, !.retryreq = 0,
                     !.rv = NoneValue, !.ret = NoneValue, !.logged = <<>>]]

Alone(f) == Run(AloneWorld(f))

\* what a notification says, the identity of the request apart
Said(logged) ==
    [i \in DOMAIN logged |-> [event |-> logged[i].event,
                               retries |-> logged[i].retries,
                               reason |-> logged[i].reason]]

\* the call of frame f, at its return, has the result of the call run alone
SameAsAlone(f) ==
    LET a == Alone(f) IN
    /\ f.ret.type = a.f.ret.type
    /\ f.ret.type = "Response" => f.ret = f.response
    /\ f.ret.type = "Request" =>
          /\ metas[requests[f.ret.id].meta] =
                 a.metas[a.requests[a.f.ret.id].meta]
          /\ requests[f.ret.id].dont_filter =
                 a.requests[a.f.ret.id].dont_filter
          /\ requests[f.ret.id].url = a.requests[a.f.ret.id].url
    /\ Said(f.logged) = Said(a.f.logged)

\* C10: calls running concurrently on distinct requests do not interfere:
\* every call returns what it returns when run alone, the middleware's
\* policy stays as constructed, the request a call was given keeps its meta
\* and flag, and every other request keeps the count it was created with.
C10_NoInterference ==
    /\ mw.constructed => mw = MiddlewareInit(settings)
    /\ \A r \in DOMAIN calls :
          /\ calls[r].request = r
          /\ metas[requests[r].meta] = calls[r].pre.dict
          /\ requests[r].dont_filter = calls[r].pre.dont_filter
          /\ calls[r].pc = "return" => SameAsAlone(calls[r])
    /\ \A r \in DOMAIN hist :
          /\ hist[r].evaluated => CountOf(r) = hist[r].pre
          /\ (hist[r].parent = 0 /\ hist[r].fresh) =>
                metas[requests[r].meta] = EmptyDict
          /\ (hist[r].parent # 0 /\ sched[r] # "new") =>
                CountOf(r) = hist[hist[r].parent].pre + 1

\* C10 witness: two calls in progress at once, each having copied its
\* request; the one that copied last is at its return with a retry request
\* while the other has not yet stored its count
C10_Witness ==
    \E r1 \in DOMAIN calls, r2 \in DOMAIN calls :
        /\ r1 # r2
        /\ calls[r1].pc = "return" /\ calls[r1].ret.type = "Request"
        /\ calls[r2].pc = "L62"
        /\ calls[r2].retryreq < calls[r1].retryreq
        /\ calls[r1].pre.count # calls[r2].pre.count

\* the requests the middleware produced: the retries of failed pages
Retries == {r \in DOMAIN hist : hist[r].parent # 0}

\* C11: failed pages are collected and rescheduled at the end: a retry
\* request is resubmitted only once every regular page submitted has been
\* crawled, none being in flight any more.
C11_RetriesAtTheEnd ==
    \A r \in Retries :
        sched[r] \in {"inflight", "done"} =>
            \A root \in Roots : sched[root] = "done"

\* every page has been submitted and no request is left to be answered:
\* no failed page is left to retry
CrawlFinished ==
    /\ {requests[r].url : r \in Roots} = Urls
    /\ \A r \in DOMAIN sched : sched[r] = "done"

\* C12: once no failed page is left to retry, the middleware eventually
\* sends the retry_complete signal.
C12_RetryCompleteSent == CrawlFinished ~> ("retry_complete" \in signals)

\* the page u has been submitted
Submitted(u) == \E root \in Roots : requests[root].url = u

\* the retry chain of page u has reached a terminal result: every attempt
\* has been answered and the last answer produced no retry request, so the
\* middleware returned the response (pass-through, or retries exhausted) or
\* nothing
Terminal(u) ==
    \E root \in Roots :
        /\ requests[root].url = u
        /\ \A r \in AttemptsOf(root) : sched[r] = "done" /\ hist[r].evaluated
        /\ \E r \in AttemptsOf(root) :
              /\ hist[r].rtype # "Request"
              /\ \A q \in AttemptsOf(root) \ {r} : Rescheduled(q)

\* C14: with an outcome for every submitted request, the retry chain of
\* every logical request eventually reaches a terminal result, and from then
\* on the request is never resubmitted.
C14_ChainTerminates ==
    /\ \A u \in Urls : Submitted(u) ~> Terminal(u)
    /\ [][\A u \in Urls : Terminal(u) => Terminal(u)']_vars

\* C14 witness: a chain that used every retry under the largest ceiling has
\* reached its terminal result
C14_Witness ==
    \E u \in Urls :
        /\ Terminal(u)
        /\ settings.RETRY_TIMES = MaxRetryTimes
        /\ \E root \in Roots :
              /\ requests[root].url = u
              /\ Cardinality(AttemptsOf(root)) = 1 + MaxRetryTimes

RECURSIVE Depth(_)
\* the number of retries that led to request r: 0 for a submitted request
Depth(r) == IF hist[r].parent = 0 THEN 0 ELSE 1 + Depth(hist[r].parent)

\* C13: from a request with no stored count, when every attempt ends in a
\* retryable outcome, the k-th outcome (k <= max_retry_times) returns a
\* retry request storing k, reported as 'Retrying' with count k, and the
\* outcome after the last retry is discarded, reported with count
\* max_retry_times + 1.
C13_RetrySequence ==
    (Called(last) /\ RetryableOutcome(last) /\ hist[last.request].fresh) =>
        LET k == Depth(last.request) + 1 IN
        /\ \A q \in AttemptsOf(RootOf(last.request)) :
              Depth(q) < Depth(last.request) =>
                  Rescheduled(q) /\ CountOf(hist[q].clone) = Depth(q) + 1
        /\ Len(last.logged) = 1 /\ last.logged[1].retries = k
        /\ IF k <= mw.max_retry_times
           THEN /\ last.ret.type = "Request"
                /\ CountOf(last.ret.id) = k
                /\ last.logged[1].event = "Retrying"
           ELSE /\ last.ret.type # "Request"
                /\ k = mw.max_retry_times + 1
                /\ last.logged[1].event = "Discarding"

\* C13 witness: under RETRY_TIMES = 2 the third retryable outcome in a row
\* is discarded, after retry requests storing 1 and 2
C13_Witness ==
    /\ Called(last) /\ RetryableOutcome(last) /\ hist[last.request].fresh
    /\ mw.max_retry_times = MaxRetryTimes
    /\ Depth(last.request) = MaxRetryTimes
    /\ CountOf(last.request) = MaxRetryTimes
    /\ CountOf(hist[last.request].parent) = MaxRetryTimes - 1
    /\ last.ret.type # "Request"
    /\ last.logged[1].retries = MaxRetryTimes + 1

\* C15: for requests first submitted with no stored count, every stored
\* count lies in 0 .. RETRY_TIMES, every request the middleware produced
\* stores a count in 1 .. RETRY_TIMES, and along a clone chain the count
\* grows by exactly one per step: it is the number of retries that led to
\* the request, and so is never reset or decreased.
C15_CountsInRange ==
    \A r \in DOMAIN hist :
        hist[r].fresh =>
            /\ CountOf(r) \in 0 .. settings.RETRY_TIMES
            /\ CountOf(r) = Depth(r)
            /\ r \in Retries =>
                  /\ "retry_times" \in DOMAIN metas[requests[r].meta]
                  /\ CountOf(r) \in 1 .. settings.RETRY_TIMES
                  /\ CountOf(r) = CountOf(hist[r].parent) + 1

\* C15 witness: a chain storing 0, 1, ..., RETRY_TIMES under the largest
\* ceiling, its first request answered long before
C15_Witness ==
    \E r \in Retries :
        /\ hist[r].fresh
        /\ settings.RETRY_TIMES = MaxRetryTimes
        /\ CountOf(r) = MaxRetryTimes
        /\ CountOf(RootOf(r)) = 0
        /\ hist[r].evaluated

\* C16: no call changes the request it was given, whether the outcome is
\* passed through, rescheduled or discarded, and no later write to a
\* clone's meta changes another request: every step leaves every existing
\* request object, its flag and its meta dict, as it was.
C16_RequestsUnchanged ==
    [][\A r \in DOMAIN requests :
          /\ requests'[r] = requests[r]
          /\ metas'[requests[r].meta] = metas[requests[r].meta]]_vars

\* C16 witness: of two requests without the flag, one was passed through;
\* the other was rescheduled and its clone, given to the middleware in
\* turn, discarded; both are as submitted
C16_Witness ==
    \E r1 \in Roots, r2 \in Roots :
        /\ r1 # r2
        /\ hist[r1].fresh /\ hist[r2].fresh
        /\ hist[r1].evaluated /\ hist[r1].rtype # "Request"
        /\ mw.max_retry_times = 1
        /\ Rescheduled(r2)
        /\ last.request = hist[r2].clone /\ RetryableOutcome(last)
        /\ last.ret.type # "Request"
        /\ ~requests[r1].dont_filter /\ ~requests[r2].dont_filter
        /\ metas[requests[r2].meta] = EmptyDict

\* C17: process_response always returns something, the response it was
\* given or a retry request copied from its request, never None; when the
\* retries are exhausted it returns the response it was given, whereas
\* process_exception then returns None.
C17_ResponseAlwaysReturned ==
    Called(last) =>
        /\ last.op = "process_response" =>
              \/ last.ret = last.response /\ last.response.type = "Response"
              \/ /\ last.ret.type = "Request"
                 /\ last.ret.id \in ClonesOf(last.request)
        /\ (RetryableOutcome(last)
              /\ last.pre.count + 1 > mw.max_retry_times) =>
              /\ last.op = "process_response" => last.ret = last.response
              /\ last.op = "process_exception" => last.ret = NoneValue

\* C17 witness: a retry request that has no retry left gets a retryable
\* response
C17_Witness ==
    /\ Called(last) /\ RetryableOutcome(last)
    /\ last.op = "process_response"
    /\ hist[last.request].parent # 0
    /\ last.pre.count = mw.max_retry_times
    /\ last.ret = last.response
    /\ last.ret.type = "Response"

====
